---- MODULE Spec2Model ----
(***************************************************************************)
(* A model of swiftocr.py: the OCRResults collection (construction,        *)
(* indexing, the filters, the ranked search) and the two recognizer entry  *)
(* points of SwiftOCR.                                                     *)
(*                                                                         *)
(* Representation.  A str is a tuple of one-character strings.  A float    *)
(* score is the exact rational <<num, den>> (den > 0) it is computed from; *)
(* a confidence is a number of hundredths.  A raw record is the dict       *)
(* [text, confidence, boundingBox]; a parsed OCRResult is the object       *)
(* [text, confidence, bounding_box].  A call of a method is the record     *)
(* [self, kind, val]: the receiver after the call, and what the call       *)
(* returned or raised.                                                     *)
(***************************************************************************)
EXTENDS Integers, Sequences, FiniteSets, TLC

VARIABLES raw, C, prev, D, chain, ret, proc

vars == <<raw, C, prev, D, chain, ret, proc>>

(***************************************************************************)
(* Bounds and input sets.                                                  *)
(***************************************************************************)
\* Longest raw-record sequence handed to OCRResults.
MaxLen == 2

\* Longest chain of filter calls.
MaxChain == 2

Texts == { <<"a", "b">>, <<"A", "(">> }

Confidences == { 50, 90 }

Boxes ==
  { [x |-> 2, y |-> 2, width |-> 1, height |-> 1],
    [x |-> 0, y |-> 1, width |-> 3, height |-> 3],
    [x |-> 0, y |-> 2, width |-> 1, height |-> 1] }

\* The recognizer's records: every text in every box at the lower confidence,
\* and in the first box at the higher one as well.
Records ==
  { r \in [text : Texts, confidence : Confidences, boundingBox : Boxes] :
      r.confidence = 50 \/ r.boundingBox.x = 2 }

\* The records the filter chains are run on: those of two of the three boxes.
ChainRecords ==
  { r \in Records : r.boundingBox.x + r.boundingBox.width = 3 }

SeqsUpTo(S, n) == UNION { [1..k -> S] : k \in 0..n }

ConfidenceThresholds == { 50, 70, 100 }

Rectangles ==
  { [x |-> 1, y |-> 1, width |-> 3, height |-> 3],
    [x |-> 2, y |-> 2, width |-> 1, height |-> 1],
    [x |-> 0, y |-> 0, width |-> 3, height |-> 4] }

Needles == { <<"a">>, <<"a", "(">> }

Patterns == { <<"a">>, <<"a", ".">> }

\* 0, and re.IGNORECASE
Flags == { 0, 2 }

Queries == { <<"a", "b">>, <<"a">> }

ScoreThresholds == { <<0, 1>>, <<1, 2>>, <<1, 1>> }

ScoreFuncs == { "_score_similarity", "neg_len" }

FilterFuncs == { "low_x", "short_text" }

IntKeys == (0 - (MaxLen + 1)) .. (MaxLen + 1)

\* A bound of a slice: <<>> stands for None, <<b>> for the int b.
SliceBounds == { <<>>, <<0 - 1>>, <<1>>, <<MaxLen + 1>> }

(***************************************************************************)
(* str                                                                     *)
(***************************************************************************)
LowerChar(c) == IF c = "A" THEN "a" ELSE c

\* str.lower()
lower(s) == [i \in 1..Len(s) |-> LowerChar(s[i])]

\* a in b, for two str
IsSubstring(a, b) ==
  \E k \in 0..(Len(b) - Len(a)) :
    \A i \in 1..Len(a) : b[k + i] = a[i]

(***************************************************************************)
(* re.match(pattern, string, flags), for patterns of literal characters,   *)
(* "." and "(".  A "(" is never closed in these patterns, so a pattern     *)
(* that holds one does not compile.                                        *)
(***************************************************************************)
ReCompiles(pattern) == \A i \in 1..Len(pattern) : pattern[i] # "("

ReCharMatches(p, c, flags) ==
  \/ p = "."
  \/ p = c
  \/ flags = 2 /\ LowerChar(p) = LowerChar(c)

\* A match object (TRUE) or None (FALSE); the match is anchored at the start.
ReMatch(pattern, string, flags) ==
  /\ Len(pattern) <= Len(string)
  /\ \A i \in 1..Len(pattern) : ReCharMatches(pattern[i], string[i], flags)

(***************************************************************************)
(* difflib.SequenceMatcher(None, a, b).ratio()                             *)
(***************************************************************************)
\* Length of the common run of a from i and b from j, inside the windows.
RECURSIVE RunLength(_, _, _, _, _, _)
RunLength(a, b, i, j, ahi, bhi) ==
  IF i <= ahi /\ j <= bhi /\ a[i] = b[j]
    THEN 1 + RunLength(a, b, i + 1, j + 1, ahi, bhi)
    ELSE 0

\* find_longest_match: the longest block, the earliest in a among the longest,
\* the earliest in b among those.  Windows are 1-based and inclusive.
FindLongestMatch(a, b, alo, ahi, blo, bhi) ==
  LET cand == { <<i, j>> \in (alo..ahi) \X (blo..bhi) : TRUE }
      len(p) == RunLength(a, b, p[1], p[2], ahi, bhi)
      best == CHOOSE p \in cand :
                \A q \in cand :
                  \/ len(p) > len(q)
                  \/ len(p) = len(q) /\ p[1] < q[1]
                  \/ len(p) = len(q) /\ p[1] = q[1] /\ p[2] <= q[2]
  IN IF cand = {} THEN <<alo, blo, 0>> ELSE <<best[1], best[2], len(best)>>

\* get_matching_blocks: the total size of the blocks.
RECURSIVE MatchingSize(_, _, _, _, _, _)
MatchingSize(a, b, alo, ahi, blo, bhi) ==
  LET m == FindLongestMatch(a, b, alo, ahi, blo, bhi)
  IN IF m[3] = 0
       THEN 0
       ELSE MatchingSize(a, b, alo, m[1] - 1, blo, m[2] - 1)
            + m[3]
            + MatchingSize(a, b, m[1] + m[3], ahi, m[2] + m[3], bhi)

\* The str values the scorers are called on.
Strs == (Queries \cup Texts) \cup { lower(s) : s \in Queries \cup Texts }

\* ratio(): 2.0 * matches / length, and 1.0 for two empty sequences.  The
\* function is the table of the ratios of the strings of the model.
ratio ==
  [a \in Strs, b \in Strs |->
     LET length == Len(a) + Len(b)
         matches == MatchingSize(a, b, 1, Len(a), 1, Len(b))
     IN IF length > 0 THEN <<2 * matches, length>> ELSE <<1, 1>>]

_score_similarity(query, target) == ratio[query, target]

\* A scorer a caller passes as score_func: lambda q, t: -len(t)
neg_len(query, target) == <<0 - Len(target), 1>>

ScoreFunc(score_func, query, target) ==
  IF score_func = "_score_similarity"
    THEN _score_similarity(query, target)
    ELSE neg_len(query, target)

\* float comparisons, on the rationals the floats stand for
RatLess(p, q) == p[1] * q[2] < q[1] * p[2]

RatEq(p, q) == p[1] * q[2] = q[1] * p[2]

RatGeq(p, q) == p[1] * q[2] >= q[1] * p[2]

(***************************************************************************)
(* OCRResult, OCRResults                                                   *)
(***************************************************************************)
BoundingBox(x, y, width, height) ==
  [x |-> x, y |-> y, width |-> width, height |-> height]

OCRResult(text, confidence, bounding_box) ==
  [text |-> text, confidence |-> confidence, bounding_box |-> bounding_box]

\* OCRResults.__init__: the raw records are kept and parsed once.
OCRResults(data) ==
  [data |-> data,
   items |-> [i \in 1..Len(data) |->
                OCRResult(data[i].text,
                          data[i].confidence,
                          BoundingBox(data[i].boundingBox.x,
                                      data[i].boundingBox.y,
                                      data[i].boundingBox.width,
                                      data[i].boundingBox.height))]]

\* What a call leaves and gives: the receiver, and a value returned or an
\* exception raised (kind names the class of either).
Call(self, kind, val) == [self |-> self, kind |-> kind, val |-> val]

Raised(call) == call.kind \in { "IndexError", "TypeError", "re.error" }

\* getitem_int with the upper bound off by one: the index len(items) gives
\* the last item.
getitem_int_clamp(self, key) ==
  LET n == Len(self.items)
  IN IF 0 <= key /\ key < n
       THEN Call(self, "OCRResult", self.items[key + 1])
       ELSE IF n > 0 /\ (key = n \/ (0 - n <= key /\ key < 0))
         THEN Call(self, "OCRResult",
                   self.items[IF key = n THEN n ELSE n + key + 1])
         ELSE Call(self, "IndexError", "list index out of range")

\* items[key] of a list, for an int key
getitem_int(self, key) ==
  LET n == Len(self.items)
  IN IF 0 <= key /\ key < n
       THEN Call(self, "OCRResult", self.items[key + 1])
       ELSE IF 0 - n <= key /\ key < 0
         THEN Call(self, "OCRResult", self.items[n + key + 1])
         ELSE Call(self, "IndexError", "list index out of range")

\* One bound of a slice over a list of length n, as list slicing clamps it.
SliceIndex(b, n, default) ==
  IF b = <<>> THEN default
  ELSE IF b[1] < 0 THEN (IF n + b[1] < 0 THEN 0 ELSE n + b[1])
  ELSE IF b[1] > n THEN n ELSE b[1]

\* data[lo:hi]
getitem_slice(self, lo, hi) ==
  LET n == Len(self.data)
      start == SliceIndex(lo, n, 0)
      stop == SliceIndex(hi, n, n)
  IN Call(self, "OCRResults", OCRResults(SubSeq(self.data, start + 1, stop)))

\* key is [type |-> "int", i], [type |-> "slice", lo, hi] or of another type
__getitem__(self, key) ==
  IF key.type = "int"
    THEN getitem_int(self, key.i)
    ELSE IF key.type = "slice"
      THEN getitem_slice(self, key.lo, key.hi)
      ELSE Call(self, "TypeError", "Invalid argument type")

__len__(self) == Call(self, "int", Len(self.items))

__contains__(self, text) ==
  Call(self, "bool",
       \E i \in 1..Len(self.items) : IsSubstring(text, self.items[i].text))

first(self) ==
  IF Len(self.items) > 0
    THEN Call(self, "OCRResult", self.items[1])
    ELSE Call(self, "None", "None")

last(self) ==
  IF Len(self.items) > 0
    THEN Call(self, "OCRResult", self.items[Len(self.items)])
    ELSE Call(self, "None", "None")

\* OCRResults([item for item in self.data if ...]) of the record list data
Returning(self, data) == Call(self, "OCRResults", OCRResults(data))

\* minimum_confidence over self.data[1:]: the first record is skipped.
minimum_confidence_skip(self, threshold) ==
  Returning(self,
            SelectSeq(IF self.data = <<>> THEN <<>> ELSE Tail(self.data),
                      LAMBDA item : item.confidence >= threshold))

minimum_confidence(self, threshold) ==
  Returning(self,
            SelectSeq(self.data, LAMBDA item : item.confidence >= threshold))

\* WithinBox with the left and top edges compared strictly.
WithinBox_strict(x, y, width, height, item) ==
  /\ x < item.boundingBox.x
  /\ y < item.boundingBox.y
  /\ x + width >= item.boundingBox.x + item.boundingBox.width
  /\ y + height >= item.boundingBox.y + item.boundingBox.height

WithinBox(x, y, width, height, item) ==
  /\ x <= item.boundingBox.x
  /\ y <= item.boundingBox.y
  /\ x + width >= item.boundingBox.x + item.boundingBox.width
  /\ y + height >= item.boundingBox.y + item.boundingBox.height

within(self, x, y, width, height) ==
  Returning(self,
            SelectSeq(self.data,
                      LAMBDA item : WithinBox(x, y, width, height, item)))

containing(self, text, lowercase) ==
  IF lowercase
    THEN Returning(self,
                   SelectSeq(self.data,
                             LAMBDA item :
                               IsSubstring(lower(text), lower(item.text))))
    ELSE Returning(self,
                   SelectSeq(self.data,
                             LAMBDA item : IsSubstring(text, item.text)))

exactly(self, text, lowercase) ==
  IF lowercase
    THEN Returning(self,
                   SelectSeq(self.data,
                             LAMBDA item : lower(text) = lower(item.text)))
    ELSE Returning(self, SelectSeq(self.data, LAMBDA item : text = item.text))

\* re.match(item["text"], pattern, flag): the record's text is compiled as
\* the regular expression and the pattern argument is the string it is
\* matched on.  The comprehension stops at the first text that does not
\* compile.
matching(self, pattern, flag) ==
  IF \E i \in 1..Len(self.data) : ~ReCompiles(self.data[i].text)
    THEN Call(self, "re.error", "missing ), unterminated subpattern")
    ELSE Returning(self,
                   SelectSeq(self.data,
                             LAMBDA item : ReMatch(item.text, pattern, flag)))

\* Two predicates a caller passes as func to filter():
\*   lambda item: item["boundingBox"]["x"] < 2
\*   lambda item: len(item["text"]) < 2
FilterFunc(func, item) ==
  IF func = "low_x" THEN item.boundingBox.x < 2 ELSE Len(item.text) < 2

filter(self, func) ==
  Returning(self, SelectSeq(self.data, LAMBDA item : FilterFunc(func, item)))

(***************************************************************************)
(* Ranked search                                                           *)
(***************************************************************************)
\* ScoreKept with a strict comparison.
ScoreKept_strict(score, threshold) == RatLess(threshold, score)

\* if score >= threshold
ScoreKept(score, threshold) == RatGeq(score, threshold)

\* KeyLess for the key (-score, boundingBox.x, confidence): y is left out.
KeyLess_no_y(m, n) ==
  LET a == m[2]
      b == n[2]
  IN \/ RatLess(n[1], m[1])
     \/ /\ RatEq(m[1], n[1])
        /\ \/ a.boundingBox.x < b.boundingBox.x
           \/ /\ a.boundingBox.x = b.boundingBox.x
              /\ a.confidence < b.confidence

\* The sort key of a match m = <<score, record>> is
\* (-score, boundingBox.x, boundingBox.y, confidence); KeyLess is the order
\* of two such tuples.
KeyLess(m, n) ==
  LET a == m[2]
      b == n[2]
  IN \/ RatLess(n[1], m[1])
     \/ /\ RatEq(m[1], n[1])
        /\ \/ a.boundingBox.x < b.boundingBox.x
           \/ /\ a.boundingBox.x = b.boundingBox.x
              /\ \/ a.boundingBox.y < b.boundingBox.y
                 \/ /\ a.boundingBox.y = b.boundingBox.y
                    /\ a.confidence < b.confidence

\* sorted(matches, key=...): stable, so a match goes after the matches
\* already placed whose key is not greater than its own.
RECURSIVE sorted(_)
sorted(matches) ==
  IF matches = <<>>
    THEN <<>>
    ELSE LET n == Len(matches)
             m == matches[n]
             head == sorted(SubSeq(matches, 1, n - 1))
             k == Cardinality({ i \in 1..Len(head) : ~KeyLess(m, head[i]) })
         IN SubSeq(head, 1, k) \o <<m>> \o SubSeq(head, k + 1, Len(head))

\* _search_and_score that sorts self.data where it is (self.data.sort) and
\* then picks the matches from it.
_search_and_score_in_place(self, query, threshold, lowercase, score_func) ==
  LET q == IF lowercase THEN lower(query) ELSE query
      target(d) == IF lowercase THEN lower(d.text) ELSE d.text
      scored == [i \in 1..Len(self.data) |->
                   <<ScoreFunc(score_func, q, target(self.data[i])),
                     self.data[i]>>]
      all == sorted(scored)
  IN Call([data |-> [i \in 1..Len(all) |-> all[i][2]], items |-> self.items],
          "list",
          SelectSeq(all, LAMBDA m : ScoreKept(m[1], threshold)))

_search_and_score(self, query, threshold, lowercase, score_func) ==
  LET q == IF lowercase THEN lower(query) ELSE query
      target(d) == IF lowercase THEN lower(d.text) ELSE d.text
      scored == [i \in 1..Len(self.data) |->
                   <<ScoreFunc(score_func, q, target(self.data[i])),
                     self.data[i]>>]
      matches == SelectSeq(scored, LAMBDA m : ScoreKept(m[1], threshold))
  IN Call(self, "list", sorted(matches))

search(self, query, threshold, lowercase, score_func) ==
  LET call == _search_and_score(self, query, threshold, lowercase, score_func)
      results == call.val
  IN Call(call.self, "OCRResults",
          OCRResults([i \in 1..Len(results) |-> results[i][2]]))

search_and_score(self, query, threshold, lowercase, score_func) ==
  LET call == _search_and_score(self, query, threshold, lowercase, score_func)
      results == call.val
      scores == [i \in 1..Len(results) |-> results[i][1]]
      ocr == OCRResults([i \in 1..Len(results) |-> results[i][2]])
  IN Call(call.self, "list",
          [i \in 1..Len(results) |-> <<scores[i], ocr.items[i]>>])

(***************************************************************************)
(* SwiftOCR.from_file, SwiftOCR.from_pillow                                *)
(*                                                                         *)
(* The recognizer process is its outcome: the exit status, what it wrote   *)
(* on stdout (a JSON document of raw records, or text that is no JSON) and *)
(* the pieces of text it wrote on stderr.                                  *)
(***************************************************************************)
Stdouts ==
  [json : { TRUE }, doc : SeqsUpTo(Records, MaxLen)]
    \cup { [json |-> FALSE, doc |-> <<>>] }

Stderrs ==
  { <<>>,
    <<"No text found">>,
    <<"Error: ", "No text found", " in image">>,
    <<"Error: ", "could not read image">> }

ReturnCodes == { 0, 1 }

ProcOutcomes == [returncode : ReturnCodes, stdout : Stdouts, stderr : Stderrs]

\* json.loads(stdout), then OCRResults(result_dict)
LoadResults(stdout) ==
  IF stdout.json
    THEN [kind |-> "OCRResults", val |-> OCRResults(stdout.doc)]
    ELSE [kind |-> "ValueError",
          val |-> "Failed to parse SwiftOCR output as JSON"]

\* "No text found" in raw_message
NoTextFound(stderr) == \E i \in 1..Len(stderr) : stderr[i] = "No text found"

\* subprocess.run(..., check=True) raises CalledProcessError on every
\* non-zero exit status, and from_file turns it into RuntimeError.
from_file(p) ==
  IF p.returncode # 0
    THEN [kind |-> "RuntimeError", val |-> "SwiftOCR failed with error"]
    ELSE LoadResults(p.stdout)

from_pillow(p) ==
  IF p.returncode = 0
    THEN LoadResults(p.stdout)
    ELSE IF NoTextFound(p.stderr)
      THEN [kind |-> "OCRResults", val |-> OCRResults(<<>>)]
      ELSE [kind |-> "RuntimeError", val |-> "SwiftOCR failed"]

(***************************************************************************)
(* The state.                                                              *)
(*   raw    the sequence of raw records OCRResults was constructed from    *)
(*   C      the collection constructed from raw                            *)
(*   D      the collection at the end of the chain of filters run from C   *)
(*   prev   the collection the last filter of the chain was called on      *)
(*   chain  the filter calls of the chain, oldest first                    *)
(*   ret    the last call: its name, arguments and what it gave            *)
(*   proc   the outcome of the recognizer process                          *)
(***************************************************************************)
NoCall == [op |-> "none", args |-> <<>>, kind |-> "none", val |-> "none"]

NoProc == [returncode |-> 0, stdout |-> [json |-> TRUE, doc |-> <<>>],
           stderr |-> <<>>]

Result(op, args, call) ==
  [op |-> op, args |-> args, kind |-> call.kind, val |-> call.val]

InitOn(records) ==
  /\ raw \in SeqsUpTo(records, MaxLen)
  /\ C = OCRResults(raw)
  /\ D = C
  /\ prev = C
  /\ chain = <<>>
  /\ ret = NoCall
  /\ proc = NoProc

Init == InitOn(Records)

Keys ==
  { [type |-> "int", i |-> i] : i \in IntKeys }
    \cup [type : { "slice" }, lo : SliceBounds, hi : SliceBounds]
    \cup { [type |-> "str", s |-> <<"a">>] }

SearchArgs ==
  [query : Queries, threshold : ScoreThresholds, lowercase : BOOLEAN,
   score_func : ScoreFuncs]

\* The calls on C.  C becomes what the call leaves of its receiver, and ret
\* what the call gave.
GetItem ==
  \E key \in Keys :
    LET call == __getitem__(C, key)
    IN /\ C' = call.self
       /\ ret' = Result("__getitem__", key, call)
       /\ UNCHANGED <<raw, prev, D, chain, proc>>

Length ==
  LET call == __len__(C)
  IN /\ C' = call.self
     /\ ret' = Result("__len__", <<>>, call)
     /\ UNCHANGED <<raw, prev, D, chain, proc>>

Contains ==
  \E text \in Needles :
    LET call == __contains__(C, text)
    IN /\ C' = call.self
       /\ ret' = Result("__contains__", text, call)
       /\ UNCHANGED <<raw, prev, D, chain, proc>>

First ==
  LET call == first(C)
  IN /\ C' = call.self
     /\ ret' = Result("first", <<>>, call)
     /\ UNCHANGED <<raw, prev, D, chain, proc>>

Last ==
  LET call == last(C)
  IN /\ C' = call.self
     /\ ret' = Result("last", <<>>, call)
     /\ UNCHANGED <<raw, prev, D, chain, proc>>

MinimumConfidence ==
  \E t \in ConfidenceThresholds :
    LET call == minimum_confidence(C, t)
    IN /\ C' = call.self
       /\ ret' = Result("minimum_confidence", t, call)
       /\ UNCHANGED <<raw, prev, D, chain, proc>>

Within ==
  \E r \in Rectangles :
    LET call == within(C, r.x, r.y, r.width, r.height)
    IN /\ C' = call.self
       /\ ret' = Result("within", r, call)
       /\ UNCHANGED <<raw, prev, D, chain, proc>>

Containing ==
  \E text \in Needles, lowercase \in BOOLEAN :
    LET call == containing(C, text, lowercase)
    IN /\ C' = call.self
       /\ ret' = Result("containing",
                        [text |-> text, lowercase |-> lowercase], call)
       /\ UNCHANGED <<raw, prev, D, chain, proc>>

Exactly ==
  \E text \in Needles, lowercase \in BOOLEAN :
    LET call == exactly(C, text, lowercase)
    IN /\ C' = call.self
       /\ ret' = Result("exactly",
                        [text |-> text, lowercase |-> lowercase], call)
       /\ UNCHANGED <<raw, prev, D, chain, proc>>

Matching ==
  \E pattern \in Patterns, flag \in Flags :
    LET call == matching(C, pattern, flag)
    IN /\ C' = call.self
       /\ ret' = Result("matching", [pattern |-> pattern, flag |-> flag], call)
       /\ UNCHANGED <<raw, prev, D, chain, proc>>

Filter ==
  \E func \in FilterFuncs :
    LET call == filter(C, func)
    IN /\ C' = call.self
       /\ ret' = Result("filter", func, call)
       /\ UNCHANGED <<raw, prev, D, chain, proc>>

Search ==
  \E a \in SearchArgs :
    LET call == search(C, a.query, a.threshold, a.lowercase, a.score_func)
    IN /\ C' = call.self
       /\ ret' = Result("search", a, call)
       /\ UNCHANGED <<raw, prev, D, chain, proc>>

SearchAndScore ==
  \E a \in SearchArgs :
    LET call == search_and_score(C, a.query, a.threshold, a.lowercase,
                                 a.score_func)
    IN /\ C' = call.self
       /\ ret' = Result("search_and_score", a, call)
       /\ UNCHANGED <<raw, prev, D, chain, proc>>

Next ==
  \/ GetItem
  \/ Length
  \/ Contains
  \/ First
  \/ Last
  \/ MinimumConfidence
  \/ Within
  \/ Containing
  \/ Exactly
  \/ Matching
  \/ Filter
  \/ Search
  \/ SearchAndScore

Spec == Init /\ [][Next]_vars

(***************************************************************************)
(* Chains of filters: each filter is called on the collection the one      *)
(* before it returned, as in                                               *)
(*   results.minimum_confidence(0.9).within(100, 100, 200, 50)             *)
(* A filter that raises ends the expression and leaves the chain as it is. *)
(***************************************************************************)
ChainRectangle == [x |-> 1, y |-> 1, width |-> 3, height |-> 3]

\* The state after the call of a filter on D, the end of the chain (D is C
\* while no filter has been called).
Then(op, args, call) ==
  [C |-> IF chain = <<>> THEN call.self ELSE C,
   prev |-> IF Raised(call) THEN prev ELSE call.self,
   D |-> IF Raised(call)
           THEN (IF chain = <<>> THEN call.self ELSE D)
           ELSE call.val,
   chain |-> IF Raised(call)
               THEN chain
               ELSE Append(chain, [op |-> op, args |-> args]),
   ret |-> Result(op, args, call)]

ThenMinimumConfidence ==
  \E t \in ConfidenceThresholds :
    LET call == minimum_confidence(D, t)
        n == Then("minimum_confidence", t, call)
    IN /\ Len(chain) < MaxChain
       /\ C' = n.C
       /\ prev' = n.prev
       /\ D' = n.D
       /\ chain' = n.chain
       /\ ret' = n.ret
       /\ UNCHANGED <<raw, proc>>

ThenWithin ==
  \E r \in { ChainRectangle } :
    LET call == within(D, r.x, r.y, r.width, r.height)
        n == Then("within", r, call)
    IN /\ Len(chain) < MaxChain
       /\ C' = n.C
       /\ prev' = n.prev
       /\ D' = n.D
       /\ chain' = n.chain
       /\ ret' = n.ret
       /\ UNCHANGED <<raw, proc>>

ThenContaining ==
  \E text \in Needles, lowercase \in BOOLEAN :
    LET call == containing(D, text, lowercase)
        n == Then("containing", [text |-> text, lowercase |-> lowercase], call)
    IN /\ Len(chain) < MaxChain
       /\ C' = n.C
       /\ prev' = n.prev
       /\ D' = n.D
       /\ chain' = n.chain
       /\ ret' = n.ret
       /\ UNCHANGED <<raw, proc>>

ThenExactly ==
  \E text \in Needles, lowercase \in BOOLEAN :
    LET call == exactly(D, text, lowercase)
        n == Then("exactly", [text |-> text, lowercase |-> lowercase], call)
    IN /\ Len(chain) < MaxChain
       /\ C' = n.C
       /\ prev' = n.prev
       /\ D' = n.D
       /\ chain' = n.chain
       /\ ret' = n.ret
       /\ UNCHANGED <<raw, proc>>

ThenMatching ==
  \E pattern \in { <<"a">> }, flag \in { 0 } :
    LET call == matching(D, pattern, flag)
        n == Then("matching", [pattern |-> pattern, flag |-> flag], call)
    IN /\ Len(chain) < MaxChain
       /\ C' = n.C
       /\ prev' = n.prev
       /\ D' = n.D
       /\ chain' = n.chain
       /\ ret' = n.ret
       /\ UNCHANGED <<raw, proc>>

ThenFilter ==
  \E func \in { "low_x" } :
    LET call == filter(D, func)
        n == Then("filter", func, call)
    IN /\ Len(chain) < MaxChain
       /\ C' = n.C
       /\ prev' = n.prev
       /\ D' = n.D
       /\ chain' = n.chain
       /\ ret' = n.ret
       /\ UNCHANGED <<raw, proc>>

InitChain == InitOn(ChainRecords)

NextChain ==
  \/ ThenMinimumConfidence
  \/ ThenWithin
  \/ ThenContaining
  \/ ThenExactly
  \/ ThenMatching
  \/ ThenFilter

SpecChain == InitChain /\ [][NextChain]_vars

(***************************************************************************)
(* Recognition: one call of from_file or of from_pillow on an image for    *)
(* which the recognizer process ends as proc says.                         *)
(***************************************************************************)
InitIngest ==
  /\ proc \in ProcOutcomes
  /\ raw = <<>>
  /\ C = OCRResults(raw)
  /\ D = C
  /\ prev = C
  /\ chain = <<>>
  /\ ret = NoCall

FromFile ==
  /\ ret = NoCall
  /\ ret' = Result("from_file", <<>>, from_file(proc))
  /\ UNCHANGED <<raw, C, prev, D, chain, proc>>

FromPillow ==
  /\ ret = NoCall
  /\ ret' = Result("from_pillow", <<>>, from_pillow(proc))
  /\ UNCHANGED <<raw, C, prev, D, chain, proc>>

NextIngest == FromFile \/ FromPillow

SpecIngest == InitIngest /\ [][NextIngest]_vars

(***************************************************************************)
(* Properties                                                              *)
(***************************************************************************)
Count(seq, e) == Cardinality({ i \in 1..Len(seq) : seq[i] = e })

Parsed(d) ==
  [text |-> d.text, confidence |-> d.confidence, bounding_box |-> d.boundingBox]

\* The score a search with the arguments a gives the text of a fragment.
ScoreOf(a, text) ==
  IF a.lowercase
    THEN ScoreFunc(a.score_func, lower(a.query), lower(text))
    ELSE ScoreFunc(a.score_func, a.query, text)

\* Fragment f with score sf may stand right before fragment g with score sg.
InRankOrder(sf, f, sg, g) ==
  \/ RatLess(sg, sf)
  \/ /\ RatEq(sf, sg)
     /\ \/ f.bounding_box.x < g.bounding_box.x
        \/ /\ f.bounding_box.x = g.bounding_box.x
           /\ \/ f.bounding_box.y < g.bounding_box.y
              \/ /\ f.bounding_box.y = g.bounding_box.y
                 /\ f.confidence <= g.confidence

\* C1: The results of search and of search_and_score are sorted by score
\* descending, then x, then y, then confidence ascending: of two adjacent
\* results the first has the greater score, or the same score and an
\* (x, y, confidence) not greater than the second's.  The scores
\* search_and_score reports are the scores of the fragments they come with,
\* and search returns the fragments of search_and_score in the same order.
C1_SearchSorted ==
  /\ ret.op = "search_and_score" =>
       /\ ret.kind = "list"
       /\ \A i \in 1..Len(ret.val) :
            RatEq(ret.val[i][1], ScoreOf(ret.args, ret.val[i][2].text))
       /\ \A i \in 1..(Len(ret.val) - 1) :
            InRankOrder(ret.val[i][1], ret.val[i][2],
                        ret.val[i + 1][1], ret.val[i + 1][2])
  /\ ret.op = "search" =>
       /\ ret.kind = "OCRResults"
       /\ \A i \in 1..(Len(ret.val.items) - 1) :
            InRankOrder(ScoreOf(ret.args, ret.val.items[i].text),
                        ret.val.items[i],
                        ScoreOf(ret.args, ret.val.items[i + 1].text),
                        ret.val.items[i + 1])
       /\ LET pairs == search_and_score(C, ret.args.query, ret.args.threshold,
                                        ret.args.lowercase,
                                        ret.args.score_func).val
          IN ret.val.items = [i \in 1..Len(pairs) |-> pairs[i][2]]

\* A search put two fragments of one score and one x in the order of their y,
\* the reverse of their order in the collection.
C1_Witness ==
  /\ ret.op = "search"
  /\ Len(C.items) = 2
  /\ Len(ret.val.items) = 2
  /\ ret.val.items[1] = C.items[2]
  /\ ret.val.items[2] = C.items[1]
  /\ RatEq(ScoreOf(ret.args, C.items[1].text),
           ScoreOf(ret.args, C.items[2].text))
  /\ C.items[1].bounding_box.x = C.items[2].bounding_box.x
  /\ C.items[2].bounding_box.y < C.items[1].bounding_box.y

\* C2: The result of search, and of search_and_score, holds each record of
\* the collection whose score is at least the threshold as many times as the
\* collection does, holds no record whose score is below the threshold, and
\* holds nothing else.
C2_ThresholdInclusive ==
  ret.op \in { "search", "search_and_score" } =>
    LET found == IF ret.op = "search"
                   THEN ret.val.items
                   ELSE [i \in 1..Len(ret.val) |-> ret.val[i][2]]
    IN /\ \A d \in Records :
            Count(found, Parsed(d)) =
              IF RatGeq(ScoreOf(ret.args, d.text), ret.args.threshold)
                THEN Count(C.data, d)
                ELSE 0
       /\ \A i \in 1..Len(found) : \E d \in Records : found[i] = Parsed(d)
       /\ ret.op = "search" =>
            ret.val.items = [i \in 1..Len(ret.val.data) |->
                               Parsed(ret.val.data[i])]

\* A search kept a record whose score is the threshold, a threshold above 0,
\* and dropped another.
C2_Witness ==
  /\ ret.op = "search"
  /\ ret.args.threshold # <<0, 1>>
  /\ Len(C.data) = 2
  /\ Len(ret.val.data) = 1
  /\ RatEq(ScoreOf(ret.args, ret.val.data[1].text), ret.args.threshold)

\* The predicate each filter is specified to keep the records of.
Satisfies(f, d) ==
  IF f.op = "minimum_confidence" THEN d.confidence >= f.args
  ELSE IF f.op = "within" THEN WithinBox(f.args.x, f.args.y, f.args.width,
                                         f.args.height, d)
  ELSE IF f.op = "containing"
    THEN (IF f.args.lowercase
            THEN IsSubstring(lower(f.args.text), lower(d.text))
            ELSE IsSubstring(f.args.text, d.text))
  ELSE IF f.op = "exactly"
    THEN (IF f.args.lowercase
            THEN lower(f.args.text) = lower(d.text)
            ELSE f.args.text = d.text)
  ELSE IF f.op = "matching"
    THEN ReMatch(f.args.pattern, d.text, f.args.flag)
  ELSE FilterFunc(f.args, d)

\* C3: The collection a chain of filters gives is the subsequence of C of the
\* records that satisfy the predicate of every filter of the chain, in the
\* order they have in C.
C3_ChainIsSubsequence ==
  D = OCRResults(SelectSeq(C.data,
                           LAMBDA d : \A k \in 1..Len(chain) :
                                        Satisfies(chain[k], d)))

\* C4: After any sequence of calls, the raw records and the parsed fragments
\* of the collection the calls were made on are the ones it was constructed
\* with.
C4_SourceUnchanged ==
  /\ C.data = raw
  /\ C.items = [i \in 1..Len(raw) |-> Parsed(raw[i])]

\* A search returned the records of the collection in another order.
C4_Witness ==
  /\ ret.op = "search"
  /\ Len(raw) >= 2
  /\ Len(ret.val.data) = Len(raw)
  /\ ret.val.data # raw

\* C5: matching(pattern, flag) keeps the fragments whose text the pattern
\* matches: the pattern is the regular expression and the text its subject.
C5_MatchingAppliesPattern ==
  (ret.op = "matching" /\ ret.kind = "OCRResults") =>
    ret.val.data = SelectSeq(C.data,
                             LAMBDA d : ReMatch(ret.args.pattern, d.text,
                                                ret.args.flag))

\* C6: No filter and no search raises on a collection of well-formed records.
C6_Total ==
  ret.op \in { "minimum_confidence", "within", "containing", "exactly",
               "matching", "search", "search_and_score" } =>
    ~Raised(ret)

\* The recognizer process ended with a non-zero status and "No text found"
\* on its error stream.
NoTextReported(p) == p.returncode # 0 /\ NoTextFound(p.stderr)

\* C7: from_file and from_pillow return an empty collection when the
\* recognizer reports that it found no text, and raise when it fails in any
\* other way.
C7_Ingestion ==
  ret.op \in { "from_file", "from_pillow" } =>
    /\ NoTextReported(proc) =>
         (ret.kind = "OCRResults" /\ ret.val = OCRResults(<<>>))
    /\ (proc.returncode # 0 /\ ~NoTextReported(proc)) =>
         ret.kind \in { "RuntimeError", "ValueError" }

\* data[lo:hi]: the records at the positions k of 0..n-1 with lo <= k < hi,
\* a negative bound counting from the end and None standing for the end it
\* is on.
RawSlice(data, lo, hi) ==
  LET n == Len(data)
      from == IF lo = <<>> THEN 0 ELSE IF lo[1] < 0 THEN n + lo[1] ELSE lo[1]
      to == IF hi = <<>> THEN n ELSE IF hi[1] < 0 THEN n + hi[1] ELSE hi[1]
  IN SelectSeq([k \in 1..n |-> <<k - 1, data[k]>>],
               LAMBDA e : from <= e[1] /\ e[1] < to)

IsRawSlice(val, data, lo, hi) ==
  LET part == RawSlice(data, lo, hi)
  IN /\ val.data = [k \in 1..Len(part) |-> part[k][2]]
     /\ val.items = [k \in 1..Len(part) |-> Parsed(part[k][2])]

\* C8 as stated: an int i gives the fragment at i when 0 <= i < n and
\* IndexError when i >= n or i < 0; a slice gives a collection over the raw
\* sub-sequence; any other key gives TypeError.
C8_NegativeIndexRaises ==
  ret.op = "__getitem__" =>
    LET n == Len(C.items)
        key == ret.args
    IN /\ key.type = "int" =>
            /\ (0 <= key.i /\ key.i < n) =>
                 (ret.kind = "OCRResult" /\ ret.val = C.items[key.i + 1])
            /\ (key.i >= n \/ key.i < 0) => ret.kind = "IndexError"
       /\ key.type = "slice" =>
            (ret.kind = "OCRResults"
               /\ IsRawSlice(ret.val, C.data, key.lo, key.hi))
       /\ key.type \notin { "int", "slice" } => ret.kind = "TypeError"

\* C8, amended: an int i gives the fragment at i when 0 <= i < n, the
\* fragment at n + i when -n <= i < 0, and IndexError when i >= n or i < -n;
\* a slice gives a collection over the raw sub-sequence; any other key gives
\* TypeError.
C8_IndexLikeList ==
  ret.op = "__getitem__" =>
    LET n == Len(C.items)
        key == ret.args
    IN /\ key.type = "int" =>
            /\ (0 <= key.i /\ key.i < n) =>
                 (ret.kind = "OCRResult" /\ ret.val = C.items[key.i + 1])
            /\ (0 - n <= key.i /\ key.i < 0) =>
                 (ret.kind = "OCRResult" /\ ret.val = C.items[n + key.i + 1])
            /\ (key.i >= n \/ key.i < 0 - n) => ret.kind = "IndexError"
       /\ key.type = "slice" =>
            (ret.kind = "OCRResults"
               /\ IsRawSlice(ret.val, C.data, key.lo, key.hi))
       /\ key.type \notin { "int", "slice" } => ret.kind = "TypeError"

\* The index -1 gave the last fragment of a collection of two.
C8_Witness ==
  /\ ret.op = "__getitem__"
  /\ ret.args.type = "int"
  /\ ret.args.i = 0 - 1
  /\ Len(C.items) = 2
  /\ C.items[1] # C.items[2]
  /\ ret.kind = "OCRResult"
  /\ ret.val = C.items[2]

InSeq(e, seq) == \E i \in 1..Len(seq) : seq[i] = e

\* C9: within(x, y, width, height) keeps a record with box (bx, by, bw, bh)
\* if and only if x <= bx, y <= by, x + width >= bx + bw and
\* y + height >= by + bh; for width, height > 2 it keeps a record of box
\* (x+1, y+1, width-2, height-2) and drops one of box (x-1, y, width, height).
C9_Within ==
  ret.op = "within" =>
    LET r == ret.args
    IN /\ ret.kind = "OCRResults"
       /\ \A i \in 1..Len(C.data) :
            LET b == C.data[i].boundingBox
            IN /\ InSeq(C.data[i], ret.val.data) <=>
                    (/\ r.x <= b.x
                     /\ r.y <= b.y
                     /\ r.x + r.width >= b.x + b.width
                     /\ r.y + r.height >= b.y + b.height)
               /\ (r.width > 2 /\ r.height > 2) =>
                    /\ b = BoundingBox(r.x + 1, r.y + 1, r.width - 2,
                                       r.height - 2) =>
                         InSeq(C.data[i], ret.val.data)
                    /\ b = BoundingBox(r.x - 1, r.y, r.width, r.height) =>
                         ~InSeq(C.data[i], ret.val.data)
       /\ \A i \in 1..Len(ret.val.data) : InSeq(ret.val.data[i], C.data)

\* within kept the record of box (x+1, y+1, width-2, height-2) and dropped
\* the one of box (x-1, y, width, height).
C9_Witness ==
  /\ ret.op = "within"
  /\ ret.args.width > 2
  /\ ret.args.height > 2
  /\ Len(C.data) = 2
  /\ C.data[1].boundingBox =
       BoundingBox(ret.args.x - 1, ret.args.y, ret.args.width, ret.args.height)
  /\ C.data[2].boundingBox =
       BoundingBox(ret.args.x + 1, ret.args.y + 1, ret.args.width - 2,
                   ret.args.height - 2)
  /\ ret.val.data = <<C.data[2]>>

\* The last two filters of the chain are one filter called twice with the
\* same arguments.
CalledTwice(ops) ==
  /\ Len(chain) >= 2
  /\ chain[Len(chain)] = chain[Len(chain) - 1]
  /\ chain[Len(chain)].op \in ops

\* C10: minimum_confidence, containing and exactly, called a second time
\* with the same arguments on their own result, return the fragments of that
\* result in the same order.
C10_Idempotent ==
  CalledTwice({ "minimum_confidence", "containing", "exactly" }) =>
    (D.items = prev.items /\ D.data = prev.data)

\* containing, ignoring case, was called twice on a collection of two
\* records of which it keeps one.
C10_Witness ==
  /\ CalledTwice({ "containing" })
  /\ chain[1].args.lowercase
  /\ Len(chain) = 2
  /\ Len(C.items) = 2
  /\ Len(D.items) = 1

====
